---- MODULE Spec2Model ----
(***************************************************************************)
(* Task management application: the dashboard page (Next.js client,        *)
(* src/unnamed/part_000 lines 154-666) talking to the task API.            *)
(*                                                                         *)
(* The API server (main.py, auth.py, models.py) is not part of src/; its   *)
(* operations (Issue, Verify, SrvList, ...) are modelled from spec.md      *)
(* sections 4.1-4.4, 6 and 7.  Everything named after a dashboard handler  *)
(* is translated from the dashboard's source.                              *)
(*                                                                         *)
(* Time is counted in abstract ticks; the token lifetime TTL is a          *)
(* configuration value (ACCESS_TOKEN_EXPIRE_MINUTES) and is kept as a      *)
(* parameter of the model.                                                 *)
(***************************************************************************)
EXTENDS Integers, Sequences, FiniteSets, TLC

\* ------------------------------------------------------------------ bounds
MaxTasks == 2
MaxInFlight == 2
MaxRequests == 3
MaxTime == 1
TTL == 1

\* ------------------------------------------------------------ value domains
Users == {"alice", "bob"}
Priorities == {"Low", "Medium", "High"}
FilterStatusValues == {"all", "pending", "completed"}
FilterPriorityValues == {"all", "High", "Medium", "Low"}
SortByValues == {"created_at", "priority", "status"}

\* What the user selects and types in the explored behaviours.
DashboardUsers == {"alice"}
FilterStatusInputs == {"all", "completed"}
FilterPriorityInputs == {"all", "High"}
SortByInputs == {"created_at", "priority"}
FormInputs == {<<"title", "">>, <<"title", "a">>, <<"priority", "High">>}

NoToken == [sub |-> "null", iat |-> 0, exp |-> 0]
NoTask == [id |-> 0, owner |-> "null", title |-> "", description |-> "",
           status |-> FALSE, priority |-> "Medium", created_at |-> 0, updated_at |-> 0]
EmptyForm == [title |-> "", description |-> "", priority |-> "Medium"]
NoUser == [name |-> "null", email |-> "null"]
EmptyStorage == [token |-> NoToken, userName |-> "null", userEmail |-> "null"]
DefaultFilters == [filterStatus |-> "all", filterPriority |-> "all", sortBy |-> "created_at"]
NoQuery == [sort_by |-> "", status |-> <<>>, priority |-> <<>>]
NoMsg == [kind |-> "none", phase |-> "none", auth |-> NoToken, id |-> 0, body |-> <<>>,
          query |-> NoQuery, cap |-> DefaultFilters, live |-> FALSE, code |-> 0, data |-> <<>>]
NoCall == [user |-> "null", kind |-> "none", auth |-> NoToken, at |-> 0, id |-> 0, body |-> <<>>,
           query |-> NoQuery, code |-> 0, data |-> <<>>]

VARIABLES
    store,          \* server: the task rows, in insertion order
    nextId,         \* server: the next task id
    now,            \* the clock
    storage,        \* browser localStorage: token, userName, userEmail
    route,          \* the page the browser shows
    user,           \* dashboard state (useState, lines 174-188)
    tasks,
    loading,
    showAddModal,
    showEditModal,
    selectedTask,
    filters,        \* filterStatus, filterPriority, sortBy
    formData,
    net,            \* the dashboard's fetches in flight, by slot
    sent,           \* how many requests the dashboard has sent
    sessions,       \* API clients: the token each user's client holds
    other           \* API clients: the last call and its response

vars == <<store, nextId, now, storage, route, user, tasks, loading, showAddModal,
          showEditModal, selectedTask, filters, formData, net, sent, sessions, other>>

server == <<store, nextId>>
component == <<user, tasks, loading, showAddModal, showEditModal, selectedTask,
               filters, formData>>

Slots == 1..MaxInFlight
SeqToSet(s) == {s[i] : i \in DOMAIN s}

\* ---------------------------------------------------------- token service
\* spec.md 4.1: issue embeds the identity and expiry = issuance time + TTL.
Issue(u, t) == [sub |-> u, iat |-> t, exp |-> t + TTL]

\* Mutant of Verify: the token is still accepted at its expiry time.
VerifyThroughExpiry(tok, t) == tok.sub \in Users /\ t <= tok.exp

\* spec.md 4.1: verify fails on a malformed token or past expiry.
Verify(tok, t) == tok.sub \in Users /\ t < tok.exp

\* ---------------------------------------------------------------- task API
Reply(c, d, st, n) == [code |-> c, data |-> d, store |-> st, nextId |-> n]

PriorityRank(p) == CASE p = "High" -> 0 [] p = "Medium" -> 1 [] OTHER -> 2

SortKey(t, sb) ==
    CASE sb = "priority" -> PriorityRank(t.priority)
      [] sb = "status" -> IF t.status THEN 1 ELSE 0
      [] OTHER -> t.created_at

RECURSIVE InsertSorted(_, _, _)
InsertSorted(t, s, sb) ==
    IF s = <<>> THEN <<t>>
    ELSE IF SortKey(t, sb) < SortKey(Head(s), sb) THEN <<t>> \o s
    ELSE <<Head(s)>> \o InsertSorted(t, Tail(s), sb)

\* A stable ascending sort: equal keys keep their order in s.
RECURSIVE SortTasks(_, _)
SortTasks(s, sb) ==
    IF s = <<>> THEN <<>>
    ELSE InsertSorted(s[Len(s)], SortTasks(SubSeq(s, 1, Len(s) - 1), sb), sb)

\* The query string's status value is the text "true" or "false".
ParseBool(txt) == txt = "true"

\* Mutant of Matches: the status filter is not applied.
MatchesAnyStatus(t, u, q) ==
    /\ t.owner = u
    /\ (q.priority # <<>> => t.priority = q.priority[1])

\* spec.md 4.4, list: the caller's tasks that pass the filters.
Matches(t, u, q) ==
    /\ t.owner = u
    /\ (q.status # <<>> => t.status = ParseBool(q.status[1]))
    /\ (q.priority # <<>> => t.priority = q.priority[1])

SrvList(st, n, t, tok, q) ==
    IF ~Verify(tok, t) THEN Reply(401, <<>>, st, n)
    ELSE Reply(200, SortTasks(SelectSeq(st, LAMBDA r : Matches(r, tok.sub, q)), q.sort_by), st, n)

NewTask(n, u, t, b) ==
    [id |-> n, owner |-> u, title |-> b.title, description |-> b.description,
     status |-> FALSE, priority |-> b.priority, created_at |-> t, updated_at |-> t]

\* Mutant of SrvCreate: the title is not validated.
SrvCreateUnvalidated(st, n, t, tok, b) ==
    IF ~Verify(tok, t) THEN Reply(401, <<>>, st, n)
    ELSE Reply(201, <<NewTask(n, tok.sub, t, b)>>, Append(st, NewTask(n, tok.sub, t, b)), n + 1)

\* spec.md 4.4, create.
SrvCreate(st, n, t, tok, b) ==
    IF ~Verify(tok, t) THEN Reply(401, <<>>, st, n)
    ELSE IF b.title = "" THEN Reply(400, <<>>, st, n)
    ELSE Reply(201, <<NewTask(n, tok.sub, t, b)>>, Append(st, NewTask(n, tok.sub, t, b)), n + 1)

\* The rows with this id that the caller owns: a task of another user is not found.
Owned(st, u, i) == {k \in DOMAIN st : st[k].id = i /\ st[k].owner = u}

ApplyFields(r, b, t) ==
    [f \in DOMAIN r |->
        IF f = "updated_at" THEN t
        ELSE IF f \in DOMAIN b /\ f \in {"title", "description", "priority", "status"} THEN b[f]
        ELSE r[f]]

SrvUpdate(st, n, t, tok, i, b) ==
    IF ~Verify(tok, t) THEN Reply(401, <<>>, st, n)
    ELSE IF Owned(st, tok.sub, i) = {} THEN Reply(404, <<>>, st, n)
    ELSE LET k == CHOOSE k \in Owned(st, tok.sub, i) : TRUE
         IN Reply(200, <<ApplyFields(st[k], b, t)>>, [st EXCEPT ![k] = ApplyFields(st[k], b, t)], n)

Flip(r, t) == [r EXCEPT !.status = ~r.status, !.updated_at = t]

SrvToggle(st, n, t, tok, i) ==
    IF ~Verify(tok, t) THEN Reply(401, <<>>, st, n)
    ELSE IF Owned(st, tok.sub, i) = {} THEN Reply(404, <<>>, st, n)
    ELSE LET k == CHOOSE k \in Owned(st, tok.sub, i) : TRUE
         IN Reply(200, <<Flip(st[k], t)>>, [st EXCEPT ![k] = Flip(st[k], t)], n)

SrvDelete(st, n, t, tok, i) ==
    IF ~Verify(tok, t) THEN Reply(401, <<>>, st, n)
    ELSE IF Owned(st, tok.sub, i) = {} THEN Reply(404, <<>>, st, n)
    ELSE Reply(204, <<>>, SelectSeq(st, LAMBDA r : r.id # i), n)

\* The route a request names, applied to the server's state.
Serve(st, n, t, kind, tok, i, b, q) ==
    CASE kind = "list" -> SrvList(st, n, t, tok, q)
      [] kind = "create" -> SrvCreate(st, n, t, tok, b[1])
      [] kind = "update" -> SrvUpdate(st, n, t, tok, i, b[1])
      [] kind = "toggle" -> SrvToggle(st, n, t, tok, i)
      [] OTHER -> SrvDelete(st, n, t, tok, i)

IsOk(code) == code \in 200..299

\* ------------------------------------------------------------- dashboard
\* useState initial values, lines 174-188.
InitialComponent ==
    /\ user' = NoUser
    /\ tasks' = <<>>
    /\ loading' = TRUE
    /\ showAddModal' = FALSE
    /\ showEditModal' = FALSE
    /\ selectedTask' = NoTask
    /\ filters' = DefaultFilters
    /\ formData' = EmptyForm

\* While loading only "Loading..." is rendered (lines 352-358).
Interactive == route = "/dashboard" /\ ~loading

\* The modals are rendered over the whole page (lines 523-524, 595-596).
AddModalOpen == showAddModal
EditModalOpen == showEditModal /\ selectedTask # NoTask
NoModal == ~AddModalOpen /\ ~EditModalOpen

FreeSlots(n) == {s \in Slots : n[s] = NoMsg}

\* fetch(...): the request m joins the fetches in flight n.
Send(n, m) ==
    /\ FreeSlots(n) # {}
    /\ sent < MaxRequests
    /\ LET s == CHOOSE s \in FreeSlots(n) : \A x \in FreeSlots(n) : s <= x
       IN net' = [n EXCEPT ![s] = m]
    /\ sent' = sent + 1

\* The continuation of the fetch in slot s ends without a new request.
Done(s) ==
    /\ net' = [net EXCEPT ![s] = NoMsg]
    /\ sent' = sent

\* The page is left: state updates of its pending continuations are dropped.
Unmount(n) == [s \in Slots |-> IF n[s] = NoMsg THEN NoMsg ELSE [n[s] EXCEPT !.live = FALSE]]

\* localStorage.getItem('token'), put in the header as `Bearer ${token}`.
AuthHeader(st) == st.token

\* The text of a boolean in a template string.
BoolText(b) == IF b THEN "true" ELSE "false"

\* Mutant of FetchUrl: the status value is computed from 'pending'.
FetchUrlPendingTrue(f) ==
    [sort_by |-> f.sortBy,
     status |-> IF f.filterStatus # "all" THEN <<BoolText(f.filterStatus = "pending")>> ELSE <<>>,
     priority |-> IF f.filterPriority # "all" THEN <<f.filterPriority>> ELSE <<>>]

\* fetchTasks, lines 212-220: the query of the list request.
FetchUrl(f) ==
    [sort_by |-> f.sortBy,
     status |-> IF f.filterStatus # "all" THEN <<BoolText(f.filterStatus = "completed")>> ELSE <<>>,
     priority |-> IF f.filterPriority # "all" THEN <<f.filterPriority>> ELSE <<>>]

Request(kind, i, b, q, f, lv) ==
    [kind |-> kind, phase |-> "req", auth |-> AuthHeader(storage), id |-> i, body |-> b,
     query |-> q, cap |-> f, live |-> lv, code |-> 0, data |-> <<>>]

\* fetchTasks, lines 209-226, called from a render whose filters are f.
FetchTasks(f, lv) == Request("list", 0, <<>>, FetchUrl(f), f, lv)

\* Mutant of AddBody: the create request names an owner.
AddBodyWithOwner(fd) ==
    <<[title |-> fd.title, description |-> fd.description, priority |-> fd.priority,
       owner_id |-> user.email]>>

\* JSON.stringify(formData), line 249.
AddBody(fd) == <<fd>>

\* Mutant of EditBody: the edit also sends the completion value of the selected task.
EditBodyWithStatus(fd, sel) ==
    <<[title |-> fd.title, description |-> fd.description, priority |-> fd.priority,
       status |-> sel.status]>>

\* JSON.stringify(formData), line 274.
EditBody(fd, sel) == <<fd>>

\* Mutant of ToggleBody: the toggle request sends the new completion value.
ToggleBodyWithStatus(t) == <<[status |-> ~t.status]>>

\* The PATCH of lines 291-296 has no body.
ToggleBody(t) == <<>>

\* Mutant of UseEffect: the token is not looked at.
UseEffectUnguarded(f) ==
    /\ route' = "/dashboard"
    /\ user' = [name |-> IF storage.userName = "null" THEN "User" ELSE storage.userName,
                email |-> IF storage.userEmail = "null" THEN "" ELSE storage.userEmail]
    /\ Send(net, FetchTasks(f, TRUE))
    /\ filters' = f

\* useEffect, lines 190-207, run by a render whose filters are f.
UseEffect(f) ==
    IF storage.token = NoToken
    THEN /\ route' = "/auth/login"
         /\ net' = Unmount(net)
         /\ sent' = sent
         /\ InitialComponent
    ELSE /\ route' = "/dashboard"
         /\ user' = [name |-> IF storage.userName = "null" THEN "User" ELSE storage.userName,
                     email |-> IF storage.userEmail = "null" THEN "" ELSE storage.userEmail]
         /\ Send(net, FetchTasks(f, TRUE))
         /\ filters' = f

\* Home page, lines 136-141: the Login link.
GoLogin ==
    /\ route = "/"
    /\ route' = "/auth/login"
    /\ UNCHANGED <<server, now, storage, component, net, sent, sessions, other>>

\* Login page: a successful login stores the token and the user's name and email.
Login(u) ==
    /\ route = "/auth/login"
    /\ storage' = [token |-> Issue(u, now), userName |-> u, userEmail |-> u]
    /\ UNCHANGED <<server, now, route, component, net, sent, sessions, other>>

\* The dashboard page is opened: first render and effect.
OpenDashboard ==
    /\ route # "/dashboard"
    /\ UseEffect(DefaultFilters)
    /\ tasks' = <<>>
    /\ loading' = TRUE
    /\ showAddModal' = FALSE
    /\ showEditModal' = FALSE
    /\ selectedTask' = NoTask
    /\ formData' = EmptyForm
    /\ UNCHANGED <<server, now, storage, sessions, other>>

\* Lines 406-445: a select changes a filter or the sort key; the effect runs again.
SetFilters(f) ==
    /\ Interactive /\ NoModal
    /\ f # filters
    /\ UseEffect(f)
    /\ IF storage.token = NoToken
       THEN TRUE
       ELSE UNCHANGED <<tasks, loading, showAddModal, showEditModal, selectedTask, formData>>
    /\ UNCHANGED <<server, now, storage, sessions, other>>

SetFilterStatus(v) == SetFilters([filters EXCEPT !.filterStatus = v])
SetFilterPriority(v) == SetFilters([filters EXCEPT !.filterPriority = v])
SetSortBy(v) == SetFilters([filters EXCEPT !.sortBy = v])

\* Line 392.
OpenAddModal ==
    /\ Interactive /\ NoModal
    /\ showAddModal' = TRUE
    /\ UNCHANGED <<server, now, storage, route, user, tasks, loading, showEditModal,
                   selectedTask, filters, formData, net, sent, sessions, other>>

\* Lines 538, 549, 561-563 and 610, 620, 631-633: the inputs of the open modal.
SetFormField(field, v) ==
    /\ Interactive /\ ~NoModal
    /\ formData[field] # v
    /\ formData' = [formData EXCEPT ![field] = v]
    /\ UNCHANGED <<server, now, storage, route, user, tasks, loading, showAddModal,
                   showEditModal, selectedTask, filters, net, sent, sessions, other>>

\* handleAddTask up to its await, lines 239-250. The title input is `required`
\* (line 536): the browser does not submit the form with an empty title.
HandleAddTask ==
    /\ Interactive /\ AddModalOpen
    /\ formData.title # ""
    /\ Send(net, Request("create", 0, AddBody(formData), NoQuery, filters, TRUE))
    /\ UNCHANGED <<server, now, storage, route, component, sessions, other>>

\* Lines 580-583.
CancelAdd ==
    /\ Interactive /\ AddModalOpen
    /\ showAddModal' = FALSE
    /\ formData' = EmptyForm
    /\ UNCHANGED <<server, now, storage, route, user, tasks, loading, showEditModal,
                   selectedTask, filters, net, sent, sessions, other>>

\* openEditModal, lines 326-334.
OpenEditModal(k) ==
    /\ Interactive /\ NoModal
    /\ k \in DOMAIN tasks
    /\ selectedTask' = tasks[k]
    /\ formData' = [title |-> tasks[k].title, description |-> tasks[k].description,
                    priority |-> tasks[k].priority]
    /\ showEditModal' = TRUE
    /\ UNCHANGED <<server, now, storage, route, user, tasks, loading, showAddModal,
                   filters, net, sent, sessions, other>>

\* handleEditTask up to its await, lines 262-275.
HandleEditTask ==
    /\ Interactive /\ EditModalOpen
    /\ formData.title # ""
    /\ selectedTask # NoTask
    /\ Send(net, Request("update", selectedTask.id, EditBody(formData, selectedTask),
                                NoQuery, filters, TRUE))
    /\ UNCHANGED <<server, now, storage, route, component, sessions, other>>

\* Lines 650-653.
CancelEdit ==
    /\ Interactive /\ EditModalOpen
    /\ showEditModal' = FALSE
    /\ selectedTask' = NoTask
    /\ formData' = EmptyForm
    /\ UNCHANGED <<server, now, storage, route, user, tasks, loading, showAddModal,
                   filters, net, sent, sessions, other>>

\* handleToggleStatus up to its await, lines 288-296.
HandleToggleStatus(k) ==
    /\ Interactive /\ NoModal
    /\ k \in DOMAIN tasks
    /\ Send(net, Request("toggle", tasks[k].id, ToggleBody(tasks[k]), NoQuery, filters, TRUE))
    /\ UNCHANGED <<server, now, storage, route, component, sessions, other>>

\* handleDeleteTask up to its await, lines 306-316; confirmed is the answer of the
\* confirm dialog (line 307).
HandleDeleteTask(k, confirmed) ==
    /\ Interactive /\ NoModal
    /\ k \in DOMAIN tasks
    /\ IF confirmed
       THEN /\ Send(net, Request("delete", tasks[k].id, <<>>, NoQuery, filters, TRUE))
            /\ UNCHANGED <<server, now, storage, route, component, sessions, other>>
       ELSE UNCHANGED vars

\* Mutant of HandleLogout: the user's email stays in storage.
HandleLogoutKeepsEmail ==
    /\ Interactive /\ NoModal
    /\ storage' = [storage EXCEPT !.token = NoToken, !.userName = "null"]
    /\ route' = "/"
    /\ net' = Unmount(net)
    /\ sent' = sent
    /\ InitialComponent
    /\ UNCHANGED <<server, now, sessions, other>>

\* handleLogout, lines 336-341.
HandleLogout ==
    /\ Interactive /\ NoModal
    /\ storage' = EmptyStorage
    /\ route' = "/"
    /\ net' = Unmount(net)
    /\ sent' = sent
    /\ InitialComponent
    /\ UNCHANGED <<server, now, sessions, other>>

\* ------------------------------------------------------- responses
\* Mutant of TasksAfterList: the body is displayed whatever the status.
TasksAfterListUnchecked(m, old) == IF m.live THEN m.data ELSE old

\* setTasks(data) when response.ok, lines 228-231.
TasksAfterList(m, old) == IF m.live /\ IsOk(m.code) THEN m.data ELSE old

\* fetchTasks after its await, lines 228-236.
RecvList(s) ==
    /\ net[s].kind = "list" /\ net[s].phase = "resp"
    /\ tasks' = TasksAfterList(net[s], tasks)
    /\ loading' = IF net[s].live THEN FALSE ELSE loading
    /\ Done(s)
    /\ UNCHANGED <<server, now, storage, route, user, showAddModal, showEditModal,
                   selectedTask, filters, formData, sessions, other>>

\* The list request sent by a handler's continuation: the fetchTasks of the render
\* the handler belongs to.
Refetch(s) == Send([net EXCEPT ![s] = NoMsg], FetchTasks(net[s].cap, net[s].live))

\* Mutant of RecvCreate: the response's status is not looked at.
RecvCreateUnchecked(s) ==
    /\ net[s].kind = "create" /\ net[s].phase = "resp"
    /\ showAddModal' = IF net[s].live THEN FALSE ELSE showAddModal
    /\ formData' = IF net[s].live THEN EmptyForm ELSE formData
    /\ Refetch(s)
    /\ UNCHANGED <<server, now, storage, route, user, tasks, loading, showEditModal,
                   selectedTask, filters, sessions, other>>

\* handleAddTask after its await, lines 252-256.
RecvCreate(s) ==
    /\ net[s].kind = "create" /\ net[s].phase = "resp"
    /\ IF IsOk(net[s].code)
       THEN /\ showAddModal' = IF net[s].live THEN FALSE ELSE showAddModal
            /\ formData' = IF net[s].live THEN EmptyForm ELSE formData
            /\ Refetch(s)
       ELSE /\ Done(s)
            /\ UNCHANGED <<showAddModal, formData>>
    /\ UNCHANGED <<server, now, storage, route, user, tasks, loading, showEditModal,
                   selectedTask, filters, sessions, other>>

\* handleEditTask after its await, lines 277-282.
RecvUpdate(s) ==
    /\ net[s].kind = "update" /\ net[s].phase = "resp"
    /\ IF IsOk(net[s].code)
       THEN /\ showEditModal' = IF net[s].live THEN FALSE ELSE showEditModal
            /\ selectedTask' = IF net[s].live THEN NoTask ELSE selectedTask
            /\ formData' = IF net[s].live THEN EmptyForm ELSE formData
            /\ Refetch(s)
       ELSE /\ Done(s)
            /\ UNCHANGED <<showEditModal, selectedTask, formData>>
    /\ UNCHANGED <<server, now, storage, route, user, tasks, loading, showAddModal,
                   filters, sessions, other>>

\* handleToggleStatus and handleDeleteTask after their await, lines 298-300, 318-320.
RecvToggleOrDelete(s) ==
    /\ net[s].kind \in {"toggle", "delete"} /\ net[s].phase = "resp"
    /\ IF IsOk(net[s].code) THEN Refetch(s) ELSE Done(s)
    /\ UNCHANGED <<server, now, storage, route, component, sessions, other>>

\* fetch rejects (a network error): the catch blocks log, and fetchTasks' finally
\* clears loading (lines 232-236, 257-259, 283-285, 301-303, 321-323).
FetchThrows(s) ==
    /\ net[s] # NoMsg
    /\ loading' = IF net[s].kind = "list" /\ net[s].live THEN FALSE ELSE loading
    /\ Done(s)
    /\ UNCHANGED <<server, now, storage, route, user, tasks, showAddModal, showEditModal,
                   selectedTask, filters, formData, sessions, other>>

\* ------------------------------------------------------------- environment
\* The server handles a request of the dashboard. The dashboard reads the body of
\* list responses only (line 229).
ServerHandle(s) ==
    /\ net[s].phase = "req"
    /\ net[s].kind = "create" => nextId <= MaxTasks
    /\ LET m == net[s]
           r == Serve(store, nextId, now, m.kind, m.auth, m.id, m.body, m.query)
       IN /\ store' = r.store
          /\ nextId' = r.nextId
          /\ net' = [net EXCEPT ![s] = [m EXCEPT !.phase = "resp", !.code = r.code,
                                        !.data = IF m.kind = "list" THEN r.data ELSE <<>>]]
    /\ UNCHANGED <<now, storage, route, component, sent, sessions, other>>

\* A second client of user u (another browser, another program) calls the API with
\* a token of its own; the dashboard sees nothing of it.
SecondClient(u, kind, i, b) ==
    /\ kind = "create" => nextId <= MaxTasks
    /\ LET r == Serve(store, nextId, now, kind, Issue(u, now), i, b, NoQuery)
       IN /\ store' = r.store
          /\ nextId' = r.nextId
    /\ UNCHANGED <<now, storage, route, component, net, sent, sessions, other>>

Tick ==
    /\ now < MaxTime
    /\ now' = now + 1
    /\ UNCHANGED <<server, storage, route, component, net, sent, sessions, other>>

Init ==
    /\ store = <<>>
    /\ nextId = 1
    /\ now = 0
    /\ storage = EmptyStorage
    /\ route = "/"
    /\ user = NoUser
    /\ tasks = <<>>
    /\ loading = TRUE
    /\ showAddModal = FALSE
    /\ showEditModal = FALSE
    /\ selectedTask = NoTask
    /\ filters = DefaultFilters
    /\ formData = EmptyForm
    /\ net = [s \in Slots |-> NoMsg]
    /\ sent = 0
    /\ sessions = [u \in Users |-> NoToken]
    /\ other = NoCall

Next ==
    \/ GoLogin
    \/ \E u \in DashboardUsers : Login(u)
    \/ OpenDashboard
    \/ \E v \in FilterStatusInputs : SetFilterStatus(v)
    \/ \E v \in FilterPriorityInputs : SetFilterPriority(v)
    \/ \E v \in SortByInputs : SetSortBy(v)
    \/ OpenAddModal
    \/ \E i \in FormInputs : SetFormField(i[1], i[2])
    \/ HandleAddTask
    \/ CancelAdd
    \/ \E k \in 1..MaxTasks : OpenEditModal(k)
    \/ HandleEditTask
    \/ CancelEdit
    \/ \E k \in 1..MaxTasks : HandleToggleStatus(k)
    \/ \E k \in 1..MaxTasks, confirmed \in BOOLEAN : HandleDeleteTask(k, confirmed)
    \/ HandleLogout
    \/ \E s \in Slots : RecvList(s)
    \/ \E s \in Slots : RecvCreate(s)
    \/ \E s \in Slots : RecvUpdate(s)
    \/ \E s \in Slots : RecvToggleOrDelete(s)
    \/ \E s \in Slots : FetchThrows(s)
    \/ \E s \in Slots : ServerHandle(s)
    \/ \E u \in Users : SecondClient(u, "create", 0, <<[title |-> "a", description |-> "", priority |-> "High"]>>)
    \/ \E u \in Users, i \in 1..MaxTasks : SecondClient(u, "delete", i, <<>>)
    \/ Tick

Spec == Init /\ [][Next]_vars

\* ------------------------------------------------- the API and its clients
ApiCreateBodies ==
    {[title |-> t, description |-> "", priority |-> p] : t \in {"", "a"}, p \in {"High", "Low"}}
ApiUpdateBodies == {[title |-> "b"], [status |-> TRUE]}
ApiQueries ==
    {[sort_by |-> "created_at", status |-> <<>>, priority |-> <<>>],
     [sort_by |-> "created_at", status |-> <<"true">>, priority |-> <<>>],
     [sort_by |-> "priority", status |-> <<>>, priority |-> <<"High">>]}

\* POST /login with u's credentials: the client keeps the token.
ApiLogin(u) ==
    /\ sessions' = [sessions EXCEPT ![u] = Issue(u, now)]
    /\ UNCHANGED <<server, now, storage, route, component, net, sent, other>>

\* u's client calls a task route with the token it holds.
ApiCall(u, kind, i, b, q) ==
    /\ kind = "create" => nextId <= MaxTasks
    /\ LET r == Serve(store, nextId, now, kind, sessions[u], i, b, q)
       IN /\ store' = r.store
          /\ nextId' = r.nextId
          /\ other' = [user |-> u, kind |-> kind, auth |-> sessions[u], at |-> now, id |-> i,
                       body |-> b, query |-> q, code |-> r.code, data |-> r.data]
    /\ UNCHANGED <<now, storage, route, component, net, sent, sessions>>

NextApi ==
    \/ \E u \in Users : ApiLogin(u)
    \/ \E u \in Users, q \in ApiQueries : ApiCall(u, "list", 0, <<>>, q)
    \/ \E u \in Users, b \in ApiCreateBodies : ApiCall(u, "create", 0, <<b>>, NoQuery)
    \/ \E u \in Users, i \in 1..MaxTasks, b \in ApiUpdateBodies : ApiCall(u, "update", i, <<b>>, NoQuery)
    \/ \E u \in Users, i \in 1..MaxTasks : ApiCall(u, "toggle", i, <<>>, NoQuery)
    \/ \E u \in Users, i \in 1..MaxTasks : ApiCall(u, "delete", i, <<>>, NoQuery)
    \/ Tick

SpecApi == Init /\ [][NextApi]_vars

\* ------------------------------------------- the list request, all selections
\* A dashboard that has loaded an empty list, with any selection of the filters.
InitFetch ==
    /\ store = <<>>
    /\ nextId = 1
    /\ now = 0
    /\ storage = [token |-> Issue("alice", 0), userName |-> "alice", userEmail |-> "alice"]
    /\ route = "/dashboard"
    /\ user = [name |-> "alice", email |-> "alice"]
    /\ tasks = <<>>
    /\ loading = FALSE
    /\ showAddModal = FALSE
    /\ showEditModal = FALSE
    /\ selectedTask = NoTask
    /\ filters \in [filterStatus : FilterStatusValues, filterPriority : FilterPriorityValues,
                    sortBy : SortByValues]
    /\ formData = EmptyForm
    /\ net = [s \in Slots |-> NoMsg]
    /\ sent = 0
    /\ sessions = [u \in Users |-> NoToken]
    /\ other = NoCall

NextFetch ==
    \/ \E v \in FilterStatusValues : SetFilterStatus(v)
    \/ \E v \in FilterPriorityValues : SetFilterPriority(v)
    \/ \E v \in SortByValues : SetSortBy(v)
    \/ \E s \in Slots : ServerHandle(s)
    \/ \E s \in Slots : RecvList(s)
    \/ \E s \in Slots : FetchThrows(s)

SpecFetch == InitFetch /\ [][NextFetch]_vars

\* ------------------------------------ the guard and the selections, no failures
\* handleLogout (lines 337-339) run by the dashboard in another tab of the same
\* browser: localStorage is shared, this tab's page stays as it is.
OtherTabLogout ==
    /\ storage.token # NoToken
    /\ storage' = EmptyStorage
    /\ UNCHANGED <<server, now, route, component, net, sent, sessions, other>>

\* The clock stands still and no fetch rejects: every list request is answered 200.
NextSelect ==
    \/ GoLogin
    \/ \E u \in DashboardUsers : Login(u)
    \/ OpenDashboard
    \/ \E v \in FilterStatusInputs : SetFilterStatus(v)
    \/ \E v \in FilterPriorityInputs : SetFilterPriority(v)
    \/ \E v \in SortByInputs : SetSortBy(v)
    \/ OtherTabLogout
    \/ \E s \in Slots : ServerHandle(s)
    \/ \E s \in Slots : RecvList(s)
    \/ \E u \in Users : SecondClient(u, "create", 0, <<[title |-> "a", description |-> "", priority |-> "High"]>>)

SpecSelect == Init /\ [][NextSelect]_vars

\* ===================================================================== claims
FormFields == {"title", "description", "priority"}
ForeignUpdateBodies == {EmptyForm, [title |-> "x"], [status |-> TRUE]}
Unchanged(r) == r.store = store /\ r.nextId = nextId

\* C1. Ownership isolation. In every reachable state: a list call of any user
\* returns only that user's tasks; an update, toggle or delete call of a user other
\* than a task's owner, naming that task's id with a valid token, is answered 404
\* and leaves the task store as it is; the list the dashboard displays holds only
\* tasks of the logged-in user; and every request of the dashboard carries, besides
\* the bearer token, at most a body with title, description and priority (no owner).
C1_OwnershipIsolation ==
    /\ \A u \in Users, q \in ApiQueries :
          \A t \in SeqToSet(SrvList(store, nextId, now, Issue(u, now), q).data) : t.owner = u
    /\ \A k \in DOMAIN store : \A u \in Users \ {store[k].owner} :
          LET tok == Issue(u, now)
              i == store[k].id
          IN /\ \A b \in ForeignUpdateBodies :
                   LET r == SrvUpdate(store, nextId, now, tok, i, b)
                   IN r.code = 404 /\ Unchanged(r)
             /\ LET r == SrvToggle(store, nextId, now, tok, i)
                IN r.code = 404 /\ Unchanged(r)
             /\ LET r == SrvDelete(store, nextId, now, tok, i)
                IN r.code = 404 /\ Unchanged(r)
    /\ route = "/dashboard" => \A t \in SeqToSet(tasks) : t.owner = storage.userName
    /\ \A s \in Slots : net[s] # NoMsg =>
          /\ \A b \in SeqToSet(net[s].body) : DOMAIN b = FormFields
          /\ \A t \in SeqToSet(net[s].data) : t.owner = net[s].auth.sub

\* Witness of C1: the server has answered the dashboard's list request with the
\* logged-in user's task 2 while task 1 of another user is in the store.
C1_Witness ==
    \E s \in Slots :
        /\ net[s].kind = "list" /\ net[s].phase = "resp" /\ net[s].code = 200
        /\ \E t \in SeqToSet(net[s].data) : t.id = 2 /\ t.owner = net[s].auth.sub
        /\ \E k \in DOMAIN store : store[k].id = 1 /\ store[k].owner # net[s].auth.sub

\* C2. Every request of the dashboard to a task route carries a token that was in
\* client storage when the request was sent; none is sent with storage holding no
\* token (the header would read "Bearer null").
C2_TokenPresent ==
    \A s \in Slots : net[s] # NoMsg => net[s].auth # NoToken

\* C3. A token issued at time T verifies at every check time in [T, T+TTL) and
\* fails at every check time from T+TTL on; a call made with a token is answered
\* 401 exactly when it is made at or after the token's expiry; and while a client's
\* token is expired every task route answers 401 and changes nothing (only a new
\* login gives the client a token that is accepted).
C3_TokenLifetime ==
    /\ \A u \in Users : sessions[u] # NoToken =>
          /\ sessions[u].sub = u
          /\ \A t \in sessions[u].iat..(MaxTime + TTL + 1) :
                Verify(sessions[u], t) <=> t < sessions[u].iat + TTL
          /\ now >= sessions[u].iat + TTL =>
                \A kind \in {"list", "create", "update", "toggle", "delete"}, i \in 1..MaxTasks :
                    LET r == Serve(store, nextId, now, kind, sessions[u], i, <<EmptyForm>>,
                                   [sort_by |-> "created_at", status |-> <<>>, priority |-> <<>>])
                    IN r.code = 401 /\ Unchanged(r)
    /\ (other.kind # "none" /\ other.auth # NoToken) =>
          (other.code = 401 <=> other.at >= other.auth.iat + TTL)

\* Witness of C3: a call made exactly at its token's expiry time was answered 401.
C3_Witness ==
    /\ other.kind # "none" /\ other.auth # NoToken
    /\ other.at = other.auth.iat + TTL
    /\ other.code = 401

\* C4. Creating a task with an empty title fails (400 for an authenticated caller)
\* and persists no row, whatever the description and the priority: the task store
\* after the call is the store before it.
C4_EmptyTitleRejected ==
    /\ \A u \in Users, d \in {"", "d"}, p \in Priorities :
          LET r == SrvCreate(store, nextId, now, sessions[u],
                             [title |-> "", description |-> d, priority |-> p])
          IN /\ ~IsOk(r.code)
             /\ Unchanged(r)
             /\ Verify(sessions[u], now) => r.code = 400
    /\ (other.kind = "create" /\ other.body[1].title = "") =>
          /\ other.code \in {400, 401}
          /\ other.data = <<>>
          /\ \A k \in DOMAIN store : store[k].title # ""

\* Witness of C4: an authenticated create with an empty title was answered 400,
\* with tasks in the store.
C4_Witness ==
    /\ other.kind = "create" /\ other.body[1].title = "" /\ other.code = 400
    /\ store # <<>>

RowsOf(u) == {store[k] : k \in {j \in DOMAIN store : store[j].owner = u}}

\* C6. For an authenticated caller, list with status=completed returns exactly the
\* caller's completed tasks, and list with priority=High exactly the caller's
\* High-priority tasks whatever their completion, each once, under every sort key;
\* list leaves the task store as it is.
C6_ListFilters ==
    /\ \A u \in Users : Verify(sessions[u], now) =>
          \A sb \in SortByValues :
             /\ LET r == SrvList(store, nextId, now, sessions[u],
                                 [sort_by |-> sb, status |-> <<"true">>, priority |-> <<>>])
                IN /\ r.code = 200
                   /\ SeqToSet(r.data) = {t \in RowsOf(u) : t.status}
                   /\ Len(r.data) = Cardinality({t \in RowsOf(u) : t.status})
                   /\ Unchanged(r)
             /\ LET r == SrvList(store, nextId, now, sessions[u],
                                 [sort_by |-> sb, status |-> <<>>, priority |-> <<"High">>])
                IN /\ r.code = 200
                   /\ SeqToSet(r.data) = {t \in RowsOf(u) : t.priority = "High"}
                   /\ Len(r.data) = Cardinality({t \in RowsOf(u) : t.priority = "High"})
                   /\ Unchanged(r)
    /\ (other.kind = "list" /\ other.code = 200 /\ other.query.priority = <<>>
            /\ other.query.status = <<"true">>) =>
          SeqToSet(other.data) = {t \in RowsOf(other.user) : t.status}

\* Witness of C6: a caller with two tasks, one of them completed, listed with
\* status=completed and got exactly the completed one.
C6_Witness ==
    /\ other.kind = "list" /\ other.code = 200
    /\ other.query.status = <<"true">> /\ other.query.priority = <<>>
    /\ Len(other.data) = 1
    /\ Cardinality(RowsOf(other.user)) = 2
    /\ \E t \in RowsOf(other.user) : ~t.status

NewSlots == {s \in Slots : net[s] = NoMsg /\ net'[s] # NoMsg}

\* C5. A created task has completion false; for every task in the store, a toggle
\* by its owner flips the completion flag and a second toggle restores it, and
\* apart from the update timestamp no field of the task and no other task changes.
\* Each click on a task's checkbox sends exactly one PATCH for that task's id, and
\* a toggle request never has a body (the local completion value is not sent).
C5_ToggleTwice ==
    /\ [](/\ \A u \in Users :
                LET r == SrvCreate(store, nextId, now, Issue(u, now),
                                   [title |-> "a", description |-> "", priority |-> "Low"])
                IN r.code = 201 /\ r.data[1].status = FALSE
          /\ \A k \in DOMAIN store :
                LET row == store[k]
                    tok == Issue(row.owner, now)
                    r1 == SrvToggle(store, nextId, now, tok, row.id)
                    r2 == SrvToggle(r1.store, r1.nextId, now, tok, row.id)
                IN /\ r1.code = 200 /\ r2.code = 200
                   /\ r1.store = [store EXCEPT ![k] = [row EXCEPT !.status = ~row.status,
                                                                  !.updated_at = now]]
                   /\ r2.store = [store EXCEPT ![k] = [row EXCEPT !.updated_at = now]]
          /\ \A s \in Slots : net[s].kind = "toggle" => net[s].body = <<>>)
    /\ [][\A k \in 1..MaxTasks : HandleToggleStatus(k) =>
             /\ Cardinality(NewSlots) = 1
             /\ \A s \in NewSlots : /\ net'[s].kind = "toggle"
                                    /\ net'[s].id = tasks[k].id
                                    /\ net'[s].body = <<>>
             /\ \A s \in Slots \ NewSlots : net'[s] = net[s]]_vars

\* Witness of C5: two toggles of the dashboard for the same task were both
\* answered 200, and the task is pending again.
C5_Witness ==
    \E s1, s2 \in Slots :
        /\ s1 # s2
        /\ net[s1].kind = "toggle" /\ net[s1].phase = "resp" /\ net[s1].code = 200
        /\ net[s2].kind = "toggle" /\ net[s2].phase = "resp" /\ net[s2].code = 200
        /\ net[s1].id = net[s2].id
        /\ \E k \in DOMAIN store : store[k].id = net[s1].id /\ ~store[k].status

\* What the page renders from (lines 352-665).
View == <<route, user, tasks, loading, showAddModal, showEditModal, selectedTask,
          filters, formData>>

Received(s) == RecvList(s) \/ RecvCreate(s) \/ RecvUpdate(s) \/ RecvToggleOrDelete(s)

\* C7. On every non-2xx response to a request of the displayed dashboard, the page
\* shows a failure state: what it renders after the response differs from what it
\* rendered before.
C7_FailureShown ==
    [][\A s \in Slots :
          (Received(s) /\ net[s].live /\ ~IsOk(net[s].code)) => View' # View]_vars

\* C8. Every edit the dashboard submits supplies exactly title, description and
\* priority; when the server applies it, the task's completion flag, owner, id and
\* creation timestamp stay as they were, title, description and priority become the
\* submitted ones, the update timestamp becomes the current time and no other task
\* changes. An update with fewer fields changes only those (and the update timestamp).
C8_EditFrame ==
    /\ [](/\ \A s \in Slots : net[s].kind = "update" =>
                Len(net[s].body) = 1 /\ DOMAIN net[s].body[1] = FormFields
          /\ \A k \in DOMAIN store : \A b \in ForeignUpdateBodies :
                LET row == store[k]
                    r == SrvUpdate(store, nextId, now, Issue(row.owner, now), row.id, b)
                IN /\ r.code = 200
                   /\ \A j \in DOMAIN store \ {k} : r.store[j] = store[j]
                   /\ \A f \in DOMAIN row :
                         r.store[k][f] = IF f = "updated_at" THEN now
                                         ELSE IF f \in DOMAIN b THEN b[f] ELSE row[f])
    /\ [][\A s \in Slots :
             (ServerHandle(s) /\ net[s].kind = "update" /\ net'[s].code = 200) =>
                 \E k \in DOMAIN store :
                     /\ store[k].id = net[s].id
                     /\ store' = [store EXCEPT ![k] =
                                     [store[k] EXCEPT !.title = net[s].body[1].title,
                                                      !.description = net[s].body[1].description,
                                                      !.priority = net[s].body[1].priority,
                                                      !.updated_at = now]]]_vars

\* Witness of C8: an edit of the dashboard was answered 200 and the edited task is
\* completed.
C8_Witness ==
    \E s \in Slots :
        /\ net[s].kind = "update" /\ net[s].phase = "resp" /\ net[s].code = 200
        /\ \E k \in DOMAIN store :
              /\ store[k].id = net[s].id /\ store[k].status
              /\ store[k].priority = net[s].body[1].priority
              /\ store[k].updated_at > store[k].created_at

\* C9. While the dashboard stays displayed, its task list changes only in a step
\* that receives a 2xx response to a list request, and becomes that response's
\* body: no handler, no failed list response and no other client changes it.
C9_ListOnlyFromFetch ==
    [][(route = "/dashboard" /\ route' = "/dashboard" /\ tasks' # tasks) =>
          \E s \in Slots : /\ RecvList(s)
                           /\ net[s].live /\ IsOk(net[s].code)
                           /\ tasks' = net[s].data]_vars

\* Witness of C9: the dashboard still displays a task that another client has
\* deleted, and no request is in flight.
C9_Witness ==
    /\ route = "/dashboard" /\ tasks # <<>>
    /\ store = <<>>
    /\ \A s \in Slots : net[s] = NoMsg

\* C10. Every list request carries sort_by equal to the sort key of the render
\* that built it; a status parameter exactly when the status filter is not 'all',
\* "true" for 'completed' and "false" for 'pending'; a priority parameter exactly
\* when the priority filter is not 'all', with the selected priority as its value.
\* A request sent when a select changes is built from the new selection.
C10_ListQuery ==
    /\ [](\A s \in Slots : net[s].kind = "list" =>
            LET f == net[s].cap
                q == net[s].query
            IN /\ q.sort_by = f.sortBy
               /\ (q.status # <<>>) <=> (f.filterStatus # "all")
               /\ f.filterStatus = "completed" => q.status = <<"true">>
               /\ f.filterStatus = "pending" => q.status = <<"false">>
               /\ (q.priority # <<>>) <=> (f.filterPriority # "all")
               /\ f.filterPriority # "all" => q.priority = <<f.filterPriority>>)
    /\ [][\A s \in NewSlots : net'[s].kind = "list" /\ net'[s].cap = filters']_vars

\* Witness of C10: a list request for pending Low-priority tasks sorted by status.
C10_Witness ==
    \E s \in Slots :
        /\ net[s].kind = "list"
        /\ net[s].cap = [filterStatus |-> "pending", filterPriority |-> "Low", sortBy |-> "status"]
        /\ net[s].query = [sort_by |-> "status", status |-> <<"false">>, priority |-> <<"Low">>]

FilterSelections ==
    [filterStatus : FilterStatusValues, filterPriority : FilterPriorityValues,
     sortBy : SortByValues]

\* C11. Every run of the dashboard effect (on mount, and when the status filter, the
\* priority filter or the sort key changes) with no token in client storage
\* navigates to /auth/login, issues no request and sets no user; with a token in
\* storage it issues exactly one request, a list request carrying that token and
\* built from the new selection, and touches no other fetch in flight.
C11_AuthGuard ==
    [][(OpenDashboard \/ \E f \in FilterSelections : SetFilters(f)) =>
          IF storage.token = NoToken
          THEN /\ route' = "/auth/login"
               /\ NewSlots = {}
               /\ sent' = sent
               /\ \A s \in Slots : net'[s].kind = net[s].kind /\ net'[s].phase = net[s].phase
               /\ user' = NoUser
          ELSE /\ route' = "/dashboard"
               /\ Cardinality(NewSlots) = 1
               /\ sent' = sent + 1
               /\ \A s \in NewSlots : /\ net'[s].kind = "list" /\ net'[s].phase = "req"
                                      /\ net'[s].auth = storage.token
                                      /\ net'[s].query = FetchUrl(filters')
               /\ \A s \in Slots \ NewSlots : net'[s] = net[s]]_vars

\* Witness of C11: a dashboard that had sent requests has been left for /auth/login
\* by a filter change made with no token in storage.
C11_Witness ==
    /\ route = "/auth/login"
    /\ storage.token = NoToken
    /\ sent > 0
    /\ user = NoUser

\* C12. A logout removes the token, the user name and the user email from client
\* storage and navigates to '/'. While storage holds no token every run of the
\* dashboard guard redirects to /auth/login, sends nothing and leaves storage as it
\* is; a token comes back into storage only by a login. A step that removes the
\* token is a logout: no response (a 401 included) and no other handler changes
\* client storage.
C12_Logout ==
    /\ [][HandleLogout => storage' = EmptyStorage /\ route' = "/"]_vars
    /\ [][(storage.token = NoToken /\ (OpenDashboard \/ \E f \in FilterSelections : SetFilters(f))) =>
             route' = "/auth/login" /\ storage' = storage /\ NewSlots = {}]_vars
    /\ [][(storage.token = NoToken /\ storage'.token # NoToken) =>
             \E u \in Users : Login(u)]_vars
    /\ [][(storage.token # NoToken /\ storage'.token = NoToken) => HandleLogout]_vars
    /\ [][(\E s \in Slots : Received(s) \/ FetchThrows(s)) => storage' = storage]_vars

\* Witness of C12: the user has logged out of a dashboard that had sent requests.
C12_Witness ==
    /\ route = "/"
    /\ storage = EmptyStorage
    /\ sent > 0
    /\ user = NoUser

ListRequests(n) == {s \in Slots : n[s].kind = "list" /\ n[s].phase = "req"}

\* C13. When the displayed dashboard receives a 2xx response to its create request,
\* the add modal is closed, the form becomes {title '', description '', priority
\* Medium} and one list request is sent; to its update request, the edit modal is
\* closed, the selected task is cleared, the form is reset and one list request is
\* sent. On a non-2xx response, or when the request throws, the modals, the form
\* and the selected task stay as they are and no request is sent. Every update
\* request is sent with a task selected and names that task's id; a delete request
\* is sent only by a confirmed delete, and a declined one sends nothing.
C13_Submissions ==
    /\ [][\A s \in Slots : (RecvCreate(s) /\ net[s].live) =>
             IF IsOk(net[s].code)
             THEN /\ ~showAddModal' /\ formData' = EmptyForm
                  /\ Cardinality(ListRequests(net')) = Cardinality(ListRequests(net)) + 1
                  /\ sent' = sent + 1
             ELSE /\ showAddModal' = showAddModal /\ showEditModal' = showEditModal
                  /\ formData' = formData /\ selectedTask' = selectedTask
                  /\ net' = [net EXCEPT ![s] = NoMsg] /\ sent' = sent]_vars
    /\ [][\A s \in Slots : (RecvUpdate(s) /\ net[s].live) =>
             IF IsOk(net[s].code)
             THEN /\ ~showEditModal' /\ selectedTask' = NoTask /\ formData' = EmptyForm
                  /\ Cardinality(ListRequests(net')) = Cardinality(ListRequests(net)) + 1
                  /\ sent' = sent + 1
             ELSE /\ showAddModal' = showAddModal /\ showEditModal' = showEditModal
                  /\ formData' = formData /\ selectedTask' = selectedTask
                  /\ net' = [net EXCEPT ![s] = NoMsg] /\ sent' = sent]_vars
    /\ [][\A s \in Slots : (FetchThrows(s) /\ net[s].kind \in {"create", "update"}) =>
             /\ showAddModal' = showAddModal /\ showEditModal' = showEditModal
             /\ formData' = formData /\ selectedTask' = selectedTask
             /\ net' = [net EXCEPT ![s] = NoMsg] /\ sent' = sent]_vars
    /\ [][\A s \in NewSlots : net'[s].kind = "update" =>
             selectedTask # NoTask /\ net'[s].id = selectedTask.id]_vars
    /\ [][\A s \in NewSlots : net'[s].kind = "delete" =>
             \E k \in 1..MaxTasks : HandleDeleteTask(k, TRUE)]_vars
    /\ [][\A k \in 1..MaxTasks : HandleDeleteTask(k, FALSE) => net' = net /\ sent' = sent]_vars

\* Witness of C13: the edit modal is open and the response to its update request,
\* a 404 because another client deleted the task, is about to be handled.
C13_Witness ==
    \E s \in Slots :
        /\ net[s].kind = "update" /\ net[s].phase = "resp" /\ net[s].code = 404 /\ net[s].live
        /\ EditModalOpen /\ selectedTask.id = net[s].id
        /\ formData.title = "a"

\* C14. When the displayed dashboard receives the last list response in flight (all
\* list requests having been answered 2xx), the list it then displays is the
\* response to the request built from the current selection of status filter,
\* priority filter and sort key, or at least equal to what that request returns now.
C14_FinalList ==
    [][\A s \in Slots :
          (/\ RecvList(s) /\ net[s].live /\ IsOk(net[s].code)
           /\ \A x \in Slots \ {s} : net[x] = NoMsg) =>
              \/ net[s].cap = filters
              \/ tasks' = SrvList(store, nextId, now, storage.token, FetchUrl(filters)).data]_vars

\* C15. While a modal is open the form data change only by an input of the user, by
\* the cancel of the open modal, or by the response to a submit of that kind of
\* modal (a create response with the add modal open, an update response for the
\* selected task with the edit modal open); and an open modal is closed, or its
\* selected task cleared, only by its cancel or by such a response.
C15_ModalIsolation ==
    [][(/\ route = "/dashboard" /\ route' = "/dashboard" /\ ~NoModal
        /\ \/ formData' # formData
           \/ showAddModal' # showAddModal
           \/ showEditModal' # showEditModal
           \/ selectedTask' # selectedTask) =>
          \/ \E i \in FormInputs : SetFormField(i[1], i[2])
          \/ CancelAdd
          \/ CancelEdit
          \/ \E s \in Slots : RecvCreate(s) /\ AddModalOpen
          \/ \E s \in Slots : RecvUpdate(s) /\ EditModalOpen /\ net[s].id = selectedTask.id]_vars

====
